---- MODULE Spec2Model ----
(***************************************************************************)
(* State-machine model of the Meross light plugin:                         *)
(*   - merossHttp.ts   : merossPostConfig, merossToggleX,                  *)
(*                       merossSetRgbAndBrightness, rgbToInt               *)
(*   - the light platform (validateDevices, discoverDevices and the six    *)
(*     command handlers with their per-device lastRgb / lastLum closure)   *)
(*   - the outlet platform (discoverDevices, merossToggle)                 *)
(* Every synchronous segment of a handler (from its invocation or its      *)
(* resumption up to the next await) is one action.                         *)
(***************************************************************************)
EXTENDS Integers, Sequences, FiniteSets, TLC

VARIABLES
    platform,     \* which module file is the loaded plugin: "lights" | "outlet"
    config,       \* the platform configuration (devices[] / ip,key)
    phase,        \* position of onStart: "start" | "registering" | "running" | "configError" | "skipped"
    nRegistered,  \* number of endpoints passed to registerDevice so far
    lastRgb,      \* per-device closure variable lastRgb   (device index -> 0xRRGGBB)
    lastLum,      \* per-device closure variable lastLum   (device index -> 0..100)
    handlers,     \* sequence of command-handler invocations, in arrival order
    inflight,     \* set of HTTP requests whose fetch()/text() promise is pending
    issued,       \* history: every request handed to fetch(), in issue order
    settled,      \* history: how the exchange of each issued request ended
    built         \* history: the envelopes built in SignSpec, where the header is examined

vars == <<platform, config, phase, nRegistered, lastRgb, lastLum, handlers, inflight, issued, settled, built>>

----------------------------------------------------------------------------
(* Bounds of the model *)

MaxDevices == 2     \* longest devices[] list explored
MaxIntents == 2     \* number of command-handler invocations explored
TickMs == 4000      \* largest amount of time one Tick step lets pass
LevelMargin == 2    \* levels explored beyond both ends of 0..254 in LevelSpec
MaxBuilt == 2       \* number of envelopes built in SignSpec

(* Program constants *)

timeoutMs == 4000          \* merossPostConfig default timeout
DefaultRgb == 16777215     \* let lastRgb = 0xffffff
DefaultLum == 100          \* let lastLum = 100

\* A JavaScript number as read by Number(x ?? NaN): finite with a value, or NaN
Num(v) == [finite |-> TRUE, val |-> v]
NaN == [finite |-> FALSE, val |-> 0]

(* Inputs explored *)
LevelInputs == {Num(0), Num(200), NaN}
HueSatInputs == {<<Num(0), Num(254)>>, <<NaN, Num(254)>>, <<Num(0), NaN>>}
\* responses a device gives: JSON body, empty body, rejection with a diagnostic
ResponseInputs == {<<200, "{}">>, <<200, "">>, <<500, "oops">>}

----------------------------------------------------------------------------
(* Pure functions *)

Max(a, b) == IF a >= b THEN a ELSE b
Min(a, b) == IF a <= b THEN a ELSE b
Abs(a) == IF a >= 0 THEN a ELSE -a

\* function clamp(n, min, max)
clamp(n, lo, hi) == Max(lo, Min(hi, n))

\* Number.isFinite(raw)
isFinite(raw) == raw.finite

\* C15, faulty variant: the percentage is truncated instead of rounded
levelToLum_Truncate(raw) == (100 * clamp(raw, 0, 254)) \div 254

\* Math.round((clamp(raw, 0, 254) / 254) * 100), i.e. floor(100*c/254 + 1/2)
levelToLum(raw) == (200 * clamp(raw, 0, 254) + 254) \div 508

\* rgbToInt(r, g, b): clamp each to 0..255 and pack (rr << 16) | (gg << 8) | bb
rgbToInt(r, g, b) ==
    clamp(r, 0, 255) * 65536 + clamp(g, 0, 255) * 256 + clamp(b, 0, 255)

\* Math.round(q * 255) for the rational q = n / (254 * 127)
round255(n) == (2 * 255 * n + 254 * 127) \div (2 * 254 * 127)

\* hsvToRgbInt(hue254, sat254) with v = 1.  h / 60 = 3 * hue / 127, so the
\* sector is (3 * hue) div 127 and |((h / 60) mod 2) - 1| = a / 127.
\* Channels are kept as numerators over 254 * 127:
\*   c + m = 1,  x + m = 1 - s * a / 127,  0 + m = 1 - s.
hsvToRgbInt(hue254, sat254) ==
    LET hc == clamp(hue254, 0, 254)
        sc == clamp(sat254, 0, 254)
        n3 == 3 * hc
        sector == n3 \div 127
        a == Abs((n3 % 254) - 127)
        C == 254 * 127
        X == 254 * 127 - sc * a
        Z == (254 - sc) * 127
        t == CASE sector = 0 -> <<C, X, Z>>
               [] sector = 1 -> <<X, C, Z>>
               [] sector = 2 -> <<Z, C, X>>
               [] sector = 3 -> <<Z, X, C>>
               [] sector = 4 -> <<X, Z, C>>
               [] OTHER -> <<C, Z, X>>
    IN rgbToInt(round255(t[1]), round255(t[2]), round255(t[3]))

\* crypto.createHash('md5').update(input).digest('hex'): an ideal hash, the
\* digest stands for the input it was computed from
md5(input) == [md5 |-> input]

\* C17, faulty variant: the secret is put in front of the message id
createMerossSign_KeyFirst(messageId, key, timestamp) ==
    md5(key \o messageId \o ToString(timestamp))

\* createMerossSign: md5(`${messageId}${key}${timestamp}`); the template
\* literal renders the integer timestamp in decimal
createMerossSign(messageId, key, timestamp) ==
    md5(messageId \o key \o ToString(timestamp))

\* buildMerossRequest, with the message id and the timestamp it draws from
\* createMerossMessageId() and createMerossTimestamp() as parameters
buildMerossRequest(ip, key, namespace, method, payload, messageId, timestamp) ==
    [header |-> [from |-> "http://" \o ip \o "/config",
                 messageId |-> messageId,
                 method |-> method,
                 namespace |-> namespace,
                 payloadVersion |-> 1,
                 timestamp |-> timestamp,
                 sign |-> createMerossSign(messageId, key, timestamp)],
     payload |-> payload]

\* the envelope merossToggle of the outlet platform builds inline:
\* sign = this.md5(`${messageId}${this.merossKey}${timestamp}`)
outletEnvelope(ip, key, payload, messageId, timestamp) ==
    [header |-> [from |-> "http://" \o ip \o "/config",
                 messageId |-> messageId,
                 method |-> "SET",
                 namespace |-> "Appliance.Control.ToggleX",
                 payloadVersion |-> 1,
                 timestamp |-> timestamp,
                 sign |-> md5(messageId \o key \o ToString(timestamp))],
     payload |-> payload]

\* res.ok
resOk(status) == status >= 200 /\ status <= 299

\* JSON.parse(text) succeeds: of the bodies explored, "{}" and "[1]" are JSON
\* texts; "", "oops" and "{" make JSON.parse throw
isJson(text) == text \in {"{}", "[1]"}

----------------------------------------------------------------------------
(* Configuration *)

Good1 == [id |-> "d1", name |-> "n1", ip |-> "ip1", key |-> "k1"]
Good2 == [id |-> "d2", name |-> "n2", ip |-> "ip2", key |-> "k2"]

\* the entries a devices[] list is drawn from; "" is a missing field
EntryInputs ==
    {Good1, Good2,
     [Good2 EXCEPT !.id = ""], [Good2 EXCEPT !.name = ""],
     [Good2 EXCEPT !.ip = ""], [Good2 EXCEPT !.key = ""]}

RECURSIVE SeqsUpTo(_, _)
SeqsUpTo(S, n) ==
    IF n = 0 THEN {<<>>}
    ELSE LET shorter == SeqsUpTo(S, n - 1)
         IN shorter \cup {Append(s, e) : s \in {x \in shorter : Len(x) = n - 1}, e \in S}

\* config.devices of the light platform: a list, or something that is no array
LightConfigs ==
    {[isArray |-> TRUE, devices |-> s] : s \in SeqsUpTo(EntryInputs, MaxDevices)}
        \cup {[isArray |-> FALSE, devices |-> <<>>]}

\* config of the outlet platform: ip / key may be missing
OutletConfigs == {[ip |-> i, key |-> k] : i \in {"", "ip1"}, k \in {"", "k1"}}

\* validateDevices(): the error it throws, or "ok" when it returns devices
RECURSIVE validateLoop(_, _, _)
validateLoop(devices, i, seen) ==
    IF i > Len(devices) THEN "ok"
    ELSE LET d == devices[i]
         IN IF d.id = "" \/ d.name = "" \/ d.ip = "" \/ d.key = ""
            THEN "Config error: each device requires id, name, ip, key"
            ELSE IF d.id \in seen
            THEN "Config error: duplicate device id"
            ELSE validateLoop(devices, i + 1, seen \cup {d.id})

\* C9, faulty variant: the duplicate check is missing from the validation loop
RECURSIVE validateLoop_NoDuplicateCheck(_, _)
validateLoop_NoDuplicateCheck(devices, i) ==
    IF i > Len(devices) THEN "ok"
    ELSE LET d == devices[i]
         IN IF d.id = "" \/ d.name = "" \/ d.ip = "" \/ d.key = ""
            THEN "Config error: each device requires id, name, ip, key"
            ELSE validateLoop_NoDuplicateCheck(devices, i + 1)

validateDevices_NoDuplicateCheck(cfg) ==
    IF ~cfg.isArray \/ Len(cfg.devices) = 0
    THEN "Config error: devices[] is required"
    ELSE validateLoop_NoDuplicateCheck(cfg.devices, 1)

validateDevices(cfg) ==
    IF ~cfg.isArray \/ Len(cfg.devices) = 0
    THEN "Config error: devices[] is required"
    ELSE validateLoop(cfg.devices, 1, {})

----------------------------------------------------------------------------
Init ==
    /\ platform \in {"lights", "outlet"}
    /\ config \in (IF platform = "lights" THEN LightConfigs ELSE OutletConfigs)
    /\ phase = "start"
    /\ nRegistered = 0
    /\ lastRgb = <<>>
    /\ lastLum = <<>>
    /\ handlers = <<>>
    /\ inflight = {}
    /\ issued = <<>>
    /\ settled = <<>>
    /\ built = <<>>

----------------------------------------------------------------------------
(* Startup *)

\* the device record a handler closure captured (d of the for loop; the
\* outlet platform has the single device merossIp / merossKey)
Device(d) ==
    IF platform = "lights" THEN config.devices[d]
    ELSE [id |-> "meross1", name |-> "Meross Light", ip |-> config.ip, key |-> config.key]

\* light platform: onStart -> discoverDevices: validateDevices, then the first
\* iteration of "for (const d of devices)" up to "await this.registerDevice"
\* (the closure variables are created, the endpoint is handed to the host)
OnStartLights ==
    /\ platform = "lights"
    /\ phase = "start"
    /\ IF validateDevices(config) = "ok"
       THEN /\ phase' = "registering"
            /\ nRegistered' = 1
            /\ lastRgb' = <<DefaultRgb>>
            /\ lastLum' = <<DefaultLum>>
       ELSE /\ phase' = "configError"
            /\ UNCHANGED <<nRegistered, lastRgb, lastLum>>
    /\ UNCHANGED <<built, platform, config, handlers, inflight, issued, settled>>

\* registerDevice resolved: the next iteration of the loop, or the end of
\* discoverDevices
RegisterDevice ==
    /\ platform = "lights"
    /\ phase = "registering"
    /\ IF nRegistered < Len(config.devices)
       THEN /\ nRegistered' = nRegistered + 1
            /\ lastRgb' = Append(lastRgb, DefaultRgb)
            /\ lastLum' = Append(lastLum, DefaultLum)
            /\ phase' = phase
       ELSE /\ phase' = "running"
            /\ UNCHANGED <<nRegistered, lastRgb, lastLum>>
    /\ UNCHANGED <<built, platform, config, handlers, inflight, issued, settled>>

\* outlet platform: onStart skips discovery when ip / key are missing,
\* otherwise discoverDevices registers the one outlet
OnStartOutlet ==
    /\ platform = "outlet"
    /\ phase = "start"
    /\ IF config.ip = "" \/ config.key = ""
       THEN phase' = "skipped" /\ nRegistered' = nRegistered
       ELSE phase' = "running" /\ nRegistered' = 1
    /\ UNCHANGED <<built, platform, config, lastRgb, lastLum, handlers, inflight, issued, settled>>

----------------------------------------------------------------------------
(* Requests *)

NoErr == [kind |-> "none", status |-> 0, body |-> ""]

\* the value a send returns: the object JSON.parse built from the body, the
\* body as a string, or nothing (no send has returned)
Parsed(text) == [kind |-> "json", text |-> text]
RawText(text) == [kind |-> "text", text |-> text]
NoData == [kind |-> "none", text |-> ""]

\* a command-handler invocation; pc is the await it is suspended on
Handler(d, cmd, level, hue, sat, pc) ==
    [dev |-> d, cmd |-> cmd, level |-> level, hue |-> hue, sat |-> sat,
     pc |-> pc, outcome |-> IF pc = "done" THEN "resolved" ELSE "pending", err |-> NoErr,
     ret |-> NoData]

NextId == Len(issued) + 1

\* merossToggleX: the request merossPostConfig hands to fetch
\*   namespace Appliance.Control.ToggleX, payload { togglex: { channel, onoff } }
merossToggleX(id, h, d, on) ==
    [id |-> id, h |-> h, dev |-> d, ip |-> Device(d).ip, ns |-> "ToggleX",
     onoff |-> IF on THEN 1 ELSE 0, rgb |-> 0, capacity |-> 0, luminance |-> 0]

\* rgb24 >>> 0: the identity on 0 .. 2^31 - 1; lastRgb only ever holds
\* 0xffffff or a value packed by rgbToInt, both within 0 .. 2^24 - 1
uint32(n) == n

\* merossSetRgbAndBrightness: lum = clamp(round(luminance), 0, 100),
\* rgb = rgb24 >>> 0, payload { light: { rgb, capacity: 5, luminance, channel } }
merossSetRgbAndBrightness(id, h, d, rgb24, luminance) ==
    [id |-> id, h |-> h, dev |-> d, ip |-> Device(d).ip, ns |-> "Light",
     onoff |-> 0, rgb |-> uint32(rgb24), capacity |-> 5,
     luminance |-> clamp(luminance, 0, 100)]

\* C6, faulty variant: the request is sent without the abort timer
merossPostConfig_NoTimer(id, h) ==
    [id |-> id, h |-> h, stage |-> "fetch", timed |-> FALSE, elapsed |-> 0]

\* merossPostConfig up to "await fetch": the pending request with its abort
\* timer armed (setTimeout(() => controller.abort(), timeoutMs))
merossPostConfig(id, h) ==
    [id |-> id, h |-> h, stage |-> "fetch", timed |-> TRUE, elapsed |-> 0]

\* merossToggle of the outlet platform up to "await fetch": no signal, no timer
outletFetch(id, h) ==
    [id |-> id, h |-> h, stage |-> "fetch", timed |-> FALSE, elapsed |-> 0]

Pending == [kind |-> "pending", status |-> 0, body |-> ""]

\* fetch(url, { method: 'POST', body: JSON.stringify(body), ... }) is called
Fetch(req, body) ==
    /\ inflight' = inflight \cup {req}
    /\ issued' = Append(issued, body)
    /\ settled' = Append(settled, Pending)

\* the host delivers a command to a registered endpoint once onStart has
\* completed; MaxIntents bounds the invocations explored
CanInvoke(d) ==
    /\ phase = "running"
    /\ d \in 1..nRegistered
    /\ Len(handlers) < MaxIntents

----------------------------------------------------------------------------
(* Command handlers of the light platform *)

\* C11, faulty variant: the power handler also writes the cached luminance
OnOff_WritesLum(d, on) ==
    /\ platform = "lights"
    /\ CanInvoke(d)
    /\ LET h == Len(handlers) + 1
       IN /\ handlers' = Append(handlers, Handler(d, IF on THEN "on" ELSE "off", NaN, NaN, NaN, "toggle"))
          /\ Fetch(merossPostConfig(NextId, h), merossToggleX(NextId, h, d, on))
    /\ lastLum' = [lastLum EXCEPT ![d] = IF on THEN 100 ELSE 0]
    /\ UNCHANGED <<built, platform, config, phase, nRegistered, lastRgb>>

\* 'on' / 'off': await merossToggleX(d.ip, d.key, channel, on)
OnOff(d, on) ==
    /\ platform = "lights"
    /\ CanInvoke(d)
    /\ LET h == Len(handlers) + 1
       IN /\ handlers' = Append(handlers, Handler(d, IF on THEN "on" ELSE "off", NaN, NaN, NaN, "toggle"))
          /\ Fetch(merossPostConfig(NextId, h), merossToggleX(NextId, h, d, on))
    /\ UNCHANGED <<built, platform, config, phase, nRegistered, lastRgb, lastLum>>

\* C1, faulty variant: the brightness handler sends the default colour instead of
\* the cached one
MoveToLevel_DefaultColor(d, raw) ==
    /\ platform = "lights"
    /\ CanInvoke(d)
    /\ LET h == Len(handlers) + 1
       IN IF ~isFinite(raw)
          THEN /\ handlers' = Append(handlers, Handler(d, "moveToLevel", raw, NaN, NaN, "done"))
               /\ UNCHANGED <<lastLum, inflight, issued, settled>>
          ELSE /\ lastLum' = [lastLum EXCEPT ![d] = levelToLum(raw.val)]
               /\ handlers' = Append(handlers, Handler(d, "moveToLevel", raw, NaN, NaN, "light"))
               /\ Fetch(merossPostConfig(NextId, h),
                        merossSetRgbAndBrightness(NextId, h, d, DefaultRgb, lastLum'[d]))
    /\ UNCHANGED <<built, platform, config, phase, nRegistered, lastRgb>>

\* C12, faulty variant: one cache shared by all devices (lastLum declared
\* outside the registration loop)
MoveToLevel_SharedCache(d, raw) ==
    /\ platform = "lights"
    /\ CanInvoke(d)
    /\ LET h == Len(handlers) + 1
       IN IF ~isFinite(raw)
          THEN /\ handlers' = Append(handlers, Handler(d, "moveToLevel", raw, NaN, NaN, "done"))
               /\ UNCHANGED <<lastLum, inflight, issued, settled>>
          ELSE /\ lastLum' = [k \in DOMAIN lastLum |-> levelToLum(raw.val)]
               /\ handlers' = Append(handlers, Handler(d, "moveToLevel", raw, NaN, NaN, "light"))
               /\ Fetch(merossPostConfig(NextId, h),
                        merossSetRgbAndBrightness(NextId, h, d, lastRgb[d], lastLum'[d]))
    /\ UNCHANGED <<built, platform, config, phase, nRegistered, lastRgb>>

\* 'moveToLevel'
MoveToLevel(d, raw) ==
    /\ platform = "lights"
    /\ CanInvoke(d)
    /\ LET h == Len(handlers) + 1
       IN IF ~isFinite(raw)
          THEN /\ handlers' = Append(handlers, Handler(d, "moveToLevel", raw, NaN, NaN, "done"))
               /\ UNCHANGED <<lastLum, inflight, issued, settled>>
          ELSE /\ lastLum' = [lastLum EXCEPT ![d] = levelToLum(raw.val)]
               /\ handlers' = Append(handlers, Handler(d, "moveToLevel", raw, NaN, NaN, "light"))
               /\ Fetch(merossPostConfig(NextId, h),
                        merossSetRgbAndBrightness(NextId, h, d, lastRgb[d], lastLum'[d]))
    /\ UNCHANGED <<built, platform, config, phase, nRegistered, lastRgb>>

\* C10, faulty variant: merossToggleX is not awaited, the light payload is sent at once
MoveToLevelWithOnOff_NoAwait(d, raw) ==
    /\ platform = "lights"
    /\ CanInvoke(d)
    /\ LET h == Len(handlers) + 1
       IN IF ~isFinite(raw)
          THEN /\ handlers' = Append(handlers, Handler(d, "moveToLevelWithOnOff", raw, NaN, NaN, "done"))
               /\ UNCHANGED <<lastLum, inflight, issued, settled>>
          ELSE /\ lastLum' = [lastLum EXCEPT ![d] = levelToLum(raw.val)]
               /\ handlers' = Append(handlers,
                      Handler(d, "moveToLevelWithOnOff", raw, NaN, NaN, "light"))
               /\ IF lastLum'[d] > 0
                  THEN /\ inflight' = inflight \cup
                              {merossPostConfig(NextId, h), merossPostConfig(NextId + 1, h)}
                       /\ issued' = issued \o
                              <<merossToggleX(NextId, h, d, TRUE),
                                merossSetRgbAndBrightness(NextId + 1, h, d, lastRgb[d], lastLum'[d])>>
                       /\ settled' = settled \o <<Pending, Pending>>
                  ELSE Fetch(merossPostConfig(NextId, h),
                             merossSetRgbAndBrightness(NextId, h, d, lastRgb[d], lastLum'[d]))
    /\ UNCHANGED <<built, platform, config, phase, nRegistered, lastRgb>>

\* C19, faulty variant: a luminance of 0 switches the device off before the
\* light payload is sent
MoveToLevelWithOnOff_PowerOffAtZero(d, raw) ==
    /\ platform = "lights"
    /\ CanInvoke(d)
    /\ LET h == Len(handlers) + 1
       IN IF ~isFinite(raw)
          THEN /\ handlers' = Append(handlers, Handler(d, "moveToLevelWithOnOff", raw, NaN, NaN, "done"))
               /\ UNCHANGED <<lastLum, inflight, issued, settled>>
          ELSE /\ lastLum' = [lastLum EXCEPT ![d] = levelToLum(raw.val)]
               /\ handlers' = Append(handlers,
                      Handler(d, "moveToLevelWithOnOff", raw, NaN, NaN, "toggle"))
               /\ Fetch(merossPostConfig(NextId, h), merossToggleX(NextId, h, d, lastLum'[d] > 0))
    /\ UNCHANGED <<built, platform, config, phase, nRegistered, lastRgb>>

\* 'moveToLevelWithOnOff' up to its first await
MoveToLevelWithOnOff(d, raw) ==
    /\ platform = "lights"
    /\ CanInvoke(d)
    /\ LET h == Len(handlers) + 1
       IN IF ~isFinite(raw)
          THEN /\ handlers' = Append(handlers, Handler(d, "moveToLevelWithOnOff", raw, NaN, NaN, "done"))
               /\ UNCHANGED <<lastLum, inflight, issued, settled>>
          ELSE /\ lastLum' = [lastLum EXCEPT ![d] = levelToLum(raw.val)]
               /\ IF lastLum'[d] > 0
                  THEN /\ handlers' = Append(handlers,
                              Handler(d, "moveToLevelWithOnOff", raw, NaN, NaN, "toggle"))
                       /\ Fetch(merossPostConfig(NextId, h), merossToggleX(NextId, h, d, TRUE))
                  ELSE /\ handlers' = Append(handlers,
                              Handler(d, "moveToLevelWithOnOff", raw, NaN, NaN, "light"))
                       /\ Fetch(merossPostConfig(NextId, h),
                                merossSetRgbAndBrightness(NextId, h, d, lastRgb[d], lastLum'[d]))
    /\ UNCHANGED <<built, platform, config, phase, nRegistered, lastRgb>>

\* C4 and C13, faulty variant: the colour handler sends the default luminance instead of
\* the cached one
MoveToHueAndSaturation_DefaultLum(d, hue, sat) ==
    /\ platform = "lights"
    /\ CanInvoke(d)
    /\ LET h == Len(handlers) + 1
       IN IF ~isFinite(hue) \/ ~isFinite(sat)
          THEN /\ handlers' = Append(handlers, Handler(d, "moveToHueAndSaturation", NaN, hue, sat, "done"))
               /\ UNCHANGED <<lastRgb, inflight, issued, settled>>
          ELSE /\ lastRgb' = [lastRgb EXCEPT ![d] = hsvToRgbInt(hue.val, sat.val)]
               /\ handlers' = Append(handlers, Handler(d, "moveToHueAndSaturation", NaN, hue, sat, "light"))
               /\ Fetch(merossPostConfig(NextId, h),
                        merossSetRgbAndBrightness(NextId, h, d, lastRgb'[d], DefaultLum))
    /\ UNCHANGED <<built, platform, config, phase, nRegistered, lastLum>>

\* C20, faulty variant: the colour handler lacks the Number.isFinite guard
MoveToHueAndSaturation_NoGuard(d, hue, sat) ==
    /\ platform = "lights"
    /\ CanInvoke(d)
    /\ LET h == Len(handlers) + 1
       IN /\ lastRgb' = [lastRgb EXCEPT ![d] = hsvToRgbInt(hue.val, sat.val)]
          /\ handlers' = Append(handlers, Handler(d, "moveToHueAndSaturation", NaN, hue, sat, "light"))
          /\ Fetch(merossPostConfig(NextId, h),
                   merossSetRgbAndBrightness(NextId, h, d, lastRgb'[d], lastLum[d]))
    /\ UNCHANGED <<built, platform, config, phase, nRegistered, lastLum>>

\* 'moveToHueAndSaturation'
MoveToHueAndSaturation(d, hue, sat) ==
    /\ platform = "lights"
    /\ CanInvoke(d)
    /\ LET h == Len(handlers) + 1
       IN IF ~isFinite(hue) \/ ~isFinite(sat)
          THEN /\ handlers' = Append(handlers, Handler(d, "moveToHueAndSaturation", NaN, hue, sat, "done"))
               /\ UNCHANGED <<lastRgb, inflight, issued, settled>>
          ELSE /\ lastRgb' = [lastRgb EXCEPT ![d] = hsvToRgbInt(hue.val, sat.val)]
               /\ handlers' = Append(handlers, Handler(d, "moveToHueAndSaturation", NaN, hue, sat, "light"))
               /\ Fetch(merossPostConfig(NextId, h),
                        merossSetRgbAndBrightness(NextId, h, d, lastRgb'[d], lastLum[d]))
    /\ UNCHANGED <<built, platform, config, phase, nRegistered, lastLum>>

\* C14, faulty variant: the XY-colour handler throws instead of returning
MoveToColor_Throws(d) ==
    /\ platform = "lights"
    /\ CanInvoke(d)
    /\ handlers' = Append(handlers,
           [Handler(d, "moveToColor", NaN, NaN, NaN, "done") EXCEPT !.outcome = "rejected"])
    /\ UNCHANGED <<built, platform, config, phase, nRegistered, lastRgb, lastLum, inflight, issued, settled>>

\* 'moveToColor': logs the request and returns
MoveToColor(d) ==
    /\ platform = "lights"
    /\ CanInvoke(d)
    /\ handlers' = Append(handlers, Handler(d, "moveToColor", NaN, NaN, NaN, "done"))
    /\ UNCHANGED <<built, platform, config, phase, nRegistered, lastRgb, lastLum, inflight, issued, settled>>

(* Command handlers of the outlet platform *)

\* 'on' / 'off' -> merossToggle(on): returns at once when ip / key are
\* missing, otherwise posts the ToggleX envelope with a bare fetch
OutletOnOff(on) ==
    /\ platform = "outlet"
    /\ CanInvoke(1)
    /\ LET h == Len(handlers) + 1
       IN IF config.ip = "" \/ config.key = ""
          THEN /\ handlers' = Append(handlers, Handler(1, IF on THEN "on" ELSE "off", NaN, NaN, NaN, "done"))
               /\ UNCHANGED <<inflight, issued, settled>>
          ELSE /\ handlers' = Append(handlers, Handler(1, IF on THEN "on" ELSE "off", NaN, NaN, NaN, "toggle"))
               /\ Fetch(outletFetch(NextId, h), merossToggleX(NextId, h, 1, on))
    /\ UNCHANGED <<built, platform, config, phase, nRegistered, lastRgb, lastLum>>

----------------------------------------------------------------------------
(* Completion of a request: the handler resumes *)

\* what the network delivered
Response(status, body) == [kind |-> "response", status |-> status, body |-> body]
ConnectionLost == [kind |-> "lost", status |-> 0, body |-> ""]
TimerFired == [kind |-> "timeout", status |-> 0, body |-> ""]

\* what the awaited call yields
Ok(status, body, data) == [kind |-> "ok", status |-> status, body |-> body, data |-> data]
HttpError(status, body) == [kind |-> "http", status |-> status, body |-> body]
NetworkFailure == [kind |-> "network", status |-> 0, body |-> ""]
Aborted == [kind |-> "abort", status |-> 0, body |-> ""]

\* C16, faulty variant: a body that is no JSON text makes the send fail
postConfigResult_ThrowOnParse(status, body) ==
    IF ~resOk(status) THEN HttpError(status, body)
    ELSE IF isJson(body) THEN Ok(status, body, Parsed(body))
    ELSE [kind |-> "parse", status |-> status, body |-> body]

\* what "await merossPostConfig(...)" yields for a completed exchange:
\* if (!res.ok) throw new Error(`Meross HTTP ${res.status}: ${text}`),
\* else the parsed JSON, or the raw text when JSON.parse throws
postConfigResult(status, body) ==
    IF ~resOk(status) THEN HttpError(status, body)
    ELSE Ok(status, body, IF isJson(body) THEN Parsed(body) ELSE RawText(body))

\* what merossToggle of the outlet platform yields once text() settled:
\* status and body are logged, nothing is thrown, nothing is returned
outletResult(status, body) == Ok(status, body, NoData)

\* C2, faulty variant: the rejection of the power-on call is swallowed
proceedsToLight_Swallow(H, res) ==
    H.cmd = "moveToLevelWithOnOff" /\ H.pc = "toggle"

\* moveToLevelWithOnOff after "await merossToggleX": a rejection leaves
\* the handler, a fulfilment goes on to merossSetRgbAndBrightness
proceedsToLight(H, res) ==
    H.cmd = "moveToLevelWithOnOff" /\ H.pc = "toggle" /\ res.kind = "ok"

\* the exchange of request r ended with event ev (what the network
\* delivered); the awaiting call yields res and the handler resumes
Resume(r, ev, res) ==
    LET h == r.h
        H == handlers[h]
    IN /\ IF proceedsToLight(H, res)
          THEN /\ handlers' = [handlers EXCEPT ![h].pc = "light",
                                               ![h].ret = IF res.kind = "ok" THEN res.data ELSE H.ret]
               /\ inflight' = (inflight \ {r}) \cup {merossPostConfig(NextId, h)}
               /\ issued' = Append(issued,
                      merossSetRgbAndBrightness(NextId, h, H.dev, lastRgb[H.dev], lastLum[H.dev]))
               /\ settled' = Append([settled EXCEPT ![r.id] = ev], Pending)
          ELSE /\ handlers' = [handlers EXCEPT ![h] =
                      [H EXCEPT !.pc = "done",
                                !.outcome = IF res.kind = "ok" THEN "resolved" ELSE "rejected",
                                !.err = IF res.kind = "ok" THEN NoErr ELSE res,
                                !.ret = IF res.kind = "ok" THEN res.data ELSE H.ret]]
               /\ inflight' = inflight \ {r}
               /\ issued' = issued
               /\ settled' = [settled EXCEPT ![r.id] = ev]
       /\ UNCHANGED <<built, platform, config, phase, nRegistered, lastRgb, lastLum>>

----------------------------------------------------------------------------
(* Network and timers *)

\* fetch() fulfils with the response head; the caller goes on to
\* "await res.text()".  No code looks at res.status before the body has been
\* read, so the status is drawn when the body arrives.
FetchResolve(r) ==
    /\ r \in inflight
    /\ r.stage = "fetch"
    /\ inflight' = (inflight \ {r}) \cup {[r EXCEPT !.stage = "text"]}
    /\ UNCHANGED <<built, platform, config, phase, nRegistered, lastRgb, lastLum, handlers, issued, settled>>

\* res.text() fulfils with the body of a response of the given status
TextResolve(r, status, body) ==
    /\ r \in inflight
    /\ r.stage = "text"
    /\ Resume(r, Response(status, body),
              IF platform = "lights" THEN postConfigResult(status, body)
              ELSE outletResult(status, body))

\* C8, faulty variant: a request that failed on the network is sent once more
NetworkError_Retry(r, status) ==
    /\ r \in inflight
    /\ IF Cardinality({i \in DOMAIN issued : issued[i].h = r.h}) < 3
       THEN /\ inflight' = (inflight \ {r}) \cup {[r EXCEPT !.id = NextId, !.stage = "fetch", !.elapsed = 0]}
            /\ issued' = Append(issued, [issued[r.id] EXCEPT !.id = NextId])
            /\ settled' = Append([settled EXCEPT ![r.id] = ConnectionLost], Pending)
            /\ UNCHANGED <<built, platform, config, phase, nRegistered, lastRgb, lastLum, handlers>>
       ELSE Resume(r, ConnectionLost, NetworkFailure)

\* the connection fails: fetch() or res.text() rejects.  merossPostConfig
\* lets the rejection through; merossToggle of the outlet platform lets a
\* fetch rejection through and turns a text() rejection into '' (.catch)
NetworkError(r, status) ==
    /\ r \in inflight
    /\ Resume(r, ConnectionLost,
              IF platform = "outlet" /\ r.stage = "text" THEN outletResult(status, "")
              ELSE NetworkFailure)

\* the abort timer of merossPostConfig fires: controller.abort() rejects the
\* pending fetch() / res.text() with an AbortError
Timeout(r) ==
    /\ r \in inflight
    /\ r.timed
    /\ r.elapsed >= timeoutMs
    /\ Resume(r, TimerFired, Aborted)

\* time passes, by at most TickMs and never beyond a timer that is due
Timed == {r \in inflight : r.timed}

RECURSIVE MinRemaining(_)
MinRemaining(S) ==
    IF S = {} THEN TickMs
    ELSE LET r == CHOOSE x \in S : TRUE
         IN Min(timeoutMs - r.elapsed, MinRemaining(S \ {r}))

Tick ==
    /\ Timed # {}
    /\ \A r \in Timed : r.elapsed < timeoutMs
    /\ LET step == Min(TickMs, MinRemaining(Timed))
       IN inflight' = {IF r.timed THEN [r EXCEPT !.elapsed = r.elapsed + step] ELSE r : r \in inflight}
    /\ UNCHANGED <<built, platform, config, phase, nRegistered, lastRgb, lastLum, handlers, issued, settled>>

----------------------------------------------------------------------------
Next ==
    \/ OnStartLights
    \/ RegisterDevice
    \/ OnStartOutlet
    \/ \E d \in 1..MaxDevices, on \in BOOLEAN : OnOff(d, on)
    \/ \E d \in 1..MaxDevices, raw \in LevelInputs : MoveToLevel(d, raw)
    \/ \E d \in 1..MaxDevices, raw \in LevelInputs : MoveToLevelWithOnOff(d, raw)
    \/ \E d \in 1..MaxDevices, hs \in HueSatInputs : MoveToHueAndSaturation(d, hs[1], hs[2])
    \/ \E d \in 1..MaxDevices : MoveToColor(d)
    \/ \E on \in BOOLEAN : OutletOnOff(on)
    \/ \E r \in inflight : FetchResolve(r)
    \/ \E r \in inflight, resp \in ResponseInputs : TextResolve(r, resp[1], resp[2])
    \/ \E r \in inflight, resp \in ResponseInputs : NetworkError(r, resp[1])
    \/ \E r \in inflight : Timeout(r)
    \/ Tick

Spec == Init /\ [][Next]_vars

\* merossPostConfig on its own: one registered device, and callers that do
\* nothing but await one send ('on' / 'off' -> merossToggleX -> merossPostConfig)
SendInit ==
    /\ Init
    /\ platform = "lights"
    /\ config = [isArray |-> TRUE, devices |-> <<Good1>>]

SendNext ==
    \/ OnStartLights
    \/ RegisterDevice
    \/ \E on \in BOOLEAN : OnOff(1, on)
    \/ \E r \in inflight : FetchResolve(r)
    \/ \E r \in inflight, resp \in ResponseInputs : TextResolve(r, resp[1], resp[2])
    \/ \E r \in inflight, resp \in ResponseInputs : NetworkError(r, resp[1])
    \/ \E r \in inflight : Timeout(r)
    \/ Tick

\* The event loop lets time pass and runs the callback of a timer that is due
TimerFires == \E r \in inflight : Timeout(r)

SendSpec == SendInit /\ [][SendNext]_vars /\ WF_vars(Tick) /\ WF_vars(TimerFires)

\* The brightness handlers over the whole range of levels: one registered
\* device, an optional hue / saturation intent, then one brightness intent
\* whose level is any integer of LevelRange
LevelRange == (0 - LevelMargin)..(254 + LevelMargin)

LevelInit == SendInit

NoBrightnessYet == \A h \in DOMAIN handlers : handlers[h].cmd = "moveToHueAndSaturation"

LevelNext ==
    \/ OnStartLights
    \/ RegisterDevice
    \/ \E hs \in HueSatInputs : handlers = <<>> /\ MoveToHueAndSaturation(1, hs[1], hs[2])
    \/ \E raw \in LevelRange : NoBrightnessYet /\ MoveToLevel(1, Num(raw))
    \/ \E raw \in LevelRange : NoBrightnessYet /\ MoveToLevelWithOnOff(1, Num(raw))
    \/ \E r \in inflight : FetchResolve(r)
    \/ \E r \in inflight, resp \in ResponseInputs : TextResolve(r, resp[1], resp[2])
    \/ \E r \in inflight, resp \in ResponseInputs : NetworkError(r, resp[1])
    \/ \E r \in inflight : Timeout(r)
    \/ Tick

LevelSpec == LevelInit /\ [][LevelNext]_vars

\* merossPostConfig over a wider set of responses: every status class with
\* JSON, empty, malformed and plain-text bodies
StatusInputs == {200, 204, 299, 300, 404, 500}
BodyInputs == {"{}", "[1]", "", "oops", "{"}

BodyNext ==
    \/ OnStartLights
    \/ RegisterDevice
    \/ \E on \in BOOLEAN : OnOff(1, on)
    \/ \E r \in inflight : FetchResolve(r)
    \/ \E r \in inflight, status \in StatusInputs, body \in BodyInputs : TextResolve(r, status, body)
    \/ \E r \in inflight, status \in StatusInputs : NetworkError(r, status)
    \/ \E r \in inflight : Timeout(r)
    \/ Tick

BodySpec == SendInit /\ [][BodyNext]_vars

\* The envelope on its own: the secret, the message id and the timestamp are
\* drawn from small sets and the envelope of a ToggleX request is built
KeyInputs == {"k1", "0a"}
MessageIdInputs == {"0a", "k1", "0a0"}
TimestampInputs == {0, 7, 1700000000}

SignInit ==
    /\ Init
    /\ \E k \in KeyInputs :
          IF platform = "lights"
          THEN config = [isArray |-> TRUE, devices |-> <<[Good1 EXCEPT !.key = k]>>]
          ELSE config = [ip |-> "ip1", key |-> k]

TogglePayload(on) == [togglex |-> [channel |-> 0, onoff |-> IF on THEN 1 ELSE 0]]

\* merossToggleX -> merossPostConfig -> buildMerossRequest
BuildMerossRequest(messageId, timestamp, on) ==
    /\ platform = "lights"
    /\ phase = "running"
    /\ Len(built) < MaxBuilt
    /\ built' = Append(built,
           buildMerossRequest(Device(1).ip, Device(1).key, "Appliance.Control.ToggleX", "SET",
                              TogglePayload(on), messageId, timestamp))
    /\ UNCHANGED <<platform, config, phase, nRegistered, lastRgb, lastLum, handlers, inflight, issued, settled>>

\* merossToggle of the outlet platform up to the construction of body
BuildOutletEnvelope(messageId, timestamp, on) ==
    /\ platform = "outlet"
    /\ phase = "running"
    /\ Len(built) < MaxBuilt
    /\ built' = Append(built,
           outletEnvelope(config.ip, config.key, TogglePayload(on), messageId, timestamp))
    /\ UNCHANGED <<platform, config, phase, nRegistered, lastRgb, lastLum, handlers, inflight, issued, settled>>

SignNext ==
    \/ OnStartLights
    \/ RegisterDevice
    \/ OnStartOutlet
    \/ \E m \in MessageIdInputs, t \in TimestampInputs, on \in BOOLEAN : BuildMerossRequest(m, t, on)
    \/ \E m \in MessageIdInputs, t \in TimestampInputs, on \in BOOLEAN : BuildOutletEnvelope(m, t, on)

SignSpec == SignInit /\ [][SignNext]_vars

----------------------------------------------------------------------------
(* Vocabulary of the properties *)

Lights == platform = "lights"

InProgress(h) == handlers[h].pc # "done"

\* the requests (indices of issued) a handler invocation has issued
RequestsOf(h) == {i \in DOMAIN issued : issued[i].h = h}
TogglesOf(h) == {i \in RequestsOf(h) : issued[i].ns = "ToggleX"}
LightsOf(h) == {i \in RequestsOf(h) : issued[i].ns = "Light"}

\* the light payloads issued to device d
LightsTo(d) == {i \in DOMAIN issued : issued[i].dev = d /\ issued[i].ns = "Light"}

SetMax(S) == CHOOSE x \in S : \A y \in S : y <= x

\* the exchange of request i ended in a non-success status, a network error
\* or a timeout
Failed(i) ==
    \/ settled[i].kind \in {"lost", "timeout"}
    \/ settled[i].kind = "response" /\ ~(settled[i].status \in 200..299)

\* a brightness / colour intent that carries usable parameters
IsBrightness(h) ==
    handlers[h].cmd \in {"moveToLevel", "moveToLevelWithOnOff"} /\ handlers[h].level.finite
IsColor(h) ==
    handlers[h].cmd = "moveToHueAndSaturation" /\ handlers[h].hue.finite /\ handlers[h].sat.finite

LumOf(h) == levelToLum(handlers[h].level.val)
ColorOf(h) == hsvToRgbInt(handlers[h].hue.val, handlers[h].sat.val)

----------------------------------------------------------------------------
\* the colour set by the latest colour intent on the device of h before h
ColorBefore(h) ==
    LET P == {k \in 1..(h - 1) : handlers[k].dev = handlers[h].dev /\ IsColor(k)}
    IN IF P = {} THEN DefaultRgb ELSE ColorOf(SetMax(P))

\* C1: the light payload a moveToLevel (setBrightness) intent issues carries
\* the colour of the latest earlier moveToHueAndSaturation intent on the same
\* device, and the default 0xFFFFFF only when there was none.
C1_BrightnessCarriesLastColor ==
    Lights =>
        \A i \in DOMAIN issued :
            handlers[issued[i].h].cmd = "moveToLevel" =>
                /\ issued[i].ns = "Light"
                /\ issued[i].rgb = ColorBefore(issued[i].h)

\* C1 witness: a moveToLevel payload went out after a colour intent on the
\* same device and carries that colour, which is not the default
C1_Witness ==
    /\ Lights
    /\ \E i \in DOMAIN issued :
           /\ handlers[issued[i].h].cmd = "moveToLevel"
           /\ \E k \in 1..(issued[i].h - 1) : handlers[k].dev = issued[i].dev /\ IsColor(k)
           /\ issued[i].rgb = ColorBefore(issued[i].h)
           /\ issued[i].rgb # DefaultRgb

----------------------------------------------------------------------------
\* C2: when the power-on request of a moveToLevelWithOnOff intent fails (non-
\* success status, network error or timeout), that intent never issues its
\* light payload, whatever other intent arrives right after it.
C2_NoLightAfterFailedPowerOn ==
    Lights =>
        \A i \in DOMAIN issued :
            (/\ handlers[issued[i].h].cmd = "moveToLevelWithOnOff"
             /\ issued[i].ns = "ToggleX"
             /\ Failed(i))
                => LightsOf(issued[i].h) = {}

\* C2 witness: a moveToLevelWithOnOff(200) whose power-on failed, with a
\* power-off intent for the same device submitted right behind it
C2_Witness ==
    /\ Lights
    /\ \E i \in DOMAIN issued :
           LET h == issued[i].h
           IN /\ handlers[h].cmd = "moveToLevelWithOnOff"
              /\ handlers[h].level = Num(200)
              /\ issued[i].ns = "ToggleX"
              /\ Failed(i)
              /\ handlers[h].pc = "done"
              /\ h + 1 \in DOMAIN handlers
              /\ handlers[h + 1].cmd = "off"
              /\ handlers[h + 1].dev = handlers[h].dev
              /\ \E j \in RequestsOf(h + 1) : j = i + 1

----------------------------------------------------------------------------
\* the handlers of device d that touch the cache and have not ended
CacheHandlersInProgress(d) ==
    {h \in DOMAIN handlers :
        /\ handlers[h].dev = d
        /\ InProgress(h)
        /\ handlers[h].cmd \in {"moveToLevel", "moveToLevelWithOnOff", "moveToHueAndSaturation"}}

\* C3: intent handling is serialized per device: for each device at most one
\* cache-accessing handler is in progress at any time.
C3_SerializedPerDevice ==
    Lights => \A d \in 1..nRegistered : Cardinality(CacheHandlersInProgress(d)) <= 1

----------------------------------------------------------------------------
\* the brightness and colour intents submitted for device d
LightIntentsOn(d) ==
    {h \in DOMAIN handlers : handlers[h].dev = d /\ (IsBrightness(h) \/ IsColor(h))}

\* C4: when one brightness intent and one colour intent were submitted for a
\* device, in any interleaving, and both completed with all requests
\* succeeding, the cache holds the brightness intent's luminance and the
\* colour intent's colour, and the last light payload issued to the device
\* carries both.
C4_NoLostUpdate ==
    Lights =>
        \A d \in 1..nRegistered :
            \A b \in DOMAIN handlers, c \in DOMAIN handlers :
                (/\ IsBrightness(b) /\ IsColor(c)
                 /\ LightIntentsOn(d) = {b, c}
                 /\ handlers[b].outcome = "resolved"
                 /\ handlers[c].outcome = "resolved")
                    => /\ lastLum[d] = LumOf(b)
                       /\ lastRgb[d] = ColorOf(c)
                       /\ LightsTo(d) # {}
                       /\ issued[SetMax(LightsTo(d))].luminance = LumOf(b)
                       /\ issued[SetMax(LightsTo(d))].rgb = ColorOf(c)

\* C4 witness: the colour intent ran while the brightness intent was suspended
\* on its power-on request; both completed successfully
C4_Witness ==
    /\ Lights
    /\ \E d \in 1..nRegistered :
          \E b \in DOMAIN handlers, c \in DOMAIN handlers :
              /\ IsBrightness(b) /\ IsColor(c)
              /\ LightIntentsOn(d) = {b, c}
              /\ handlers[b].outcome = "resolved"
              /\ handlers[c].outcome = "resolved"
              /\ handlers[b].cmd = "moveToLevelWithOnOff"
              /\ b < c
              /\ LumOf(b) # DefaultLum
              /\ ColorOf(c) # DefaultRgb
              /\ \E i \in LightsOf(b), j \in LightsOf(c) : j < i

----------------------------------------------------------------------------
\* C5: whenever no intent is in progress on a device, its cached luminance and
\* its cached colour are each the registration default or a value carried by a
\* light payload that was handed to the network.
C5_CacheOnlyHoldsSentValues ==
    Lights =>
        \A d \in 1..nRegistered :
            (\A h \in DOMAIN handlers : handlers[h].dev = d => ~InProgress(h))
                => /\ \/ lastLum[d] = DefaultLum
                      \/ \E i \in LightsTo(d) : issued[i].luminance = lastLum[d]
                   /\ \/ lastRgb[d] = DefaultRgb
                      \/ \E i \in LightsTo(d) : issued[i].rgb = lastRgb[d]

----------------------------------------------------------------------------
\* request ids: an intent issues at most two requests
MaxRequests == 2 * MaxIntents

InFlight(i) == \E r \in inflight : r.id = i

\* a pending request is never older than the timeout
C6_Bounded ==
    Lights => \A r \in inflight : r.elapsed <= timeoutMs

\* an exchange without response ends the call with the matching failure
C6_Unreachable ==
    Lights =>
        \A i \in DOMAIN settled :
            settled[i].kind \in {"lost", "timeout"} =>
                /\ ~InFlight(i)
                /\ handlers[issued[i].h].outcome = "rejected"
                /\ handlers[issued[i].h].err.kind =
                       (IF settled[i].kind = "timeout" THEN "abort" ELSE "network")

\* nothing stays pending once its exchange has ended or its caller returned
C6_NothingLeftInFlight ==
    Lights =>
        /\ \A i \in DOMAIN settled : settled[i].kind # "pending" => ~InFlight(i)
        /\ \A r \in inflight : InProgress(r.h)

\* C6: a merossPostConfig send does not hang.  Its request is pending for at
\* most timeoutMs and always stops being pending; when no response arrives it
\* ends by the abort timer or a connection failure, and the caller then fails
\* with that (unreachable) error; once the call has returned nothing of it is
\* left in flight.
C6_SendDoesNotHang ==
    /\ [](C6_Bounded /\ C6_Unreachable /\ C6_NothingLeftInFlight)
    /\ \A i \in 1..MaxRequests : (Lights /\ InFlight(i)) ~> ~InFlight(i)

\* C6 witness: a request that got no response ran into the abort timer and
\* its caller failed
C6_Witness ==
    /\ Lights
    /\ \E i \in DOMAIN settled :
           /\ settled[i].kind = "timeout"
           /\ ~InFlight(i)
           /\ handlers[issued[i].h].err.kind = "abort"

----------------------------------------------------------------------------
\* C7: every intent whose request got a non-success status, a network error
\* or a timeout ends in a failure for its caller, the non-success case
\* carrying the status and the raw body; no such intent reports success.
C7_ErrorsReachCaller ==
    \A i \in DOMAIN settled :
        LET H == handlers[issued[i].h]
        IN (Failed(i) /\ H.pc = "done") =>
              /\ H.outcome = "rejected"
              /\ settled[i].kind = "response" =>
                    /\ H.err.kind = "http"
                    /\ H.err.status = settled[i].status
                    /\ H.err.body = settled[i].body

----------------------------------------------------------------------------
\* C8: no retries.  An on / off / moveToLevel / moveToHueAndSaturation intent
\* issues at most one request, moveToLevelWithOnOff at most one toggle and one
\* light request, moveToColor none; after a request of an intent has failed
\* the intent issues no further request.
C8_NoRetries ==
    /\ \A h \in DOMAIN handlers :
          /\ Cardinality(TogglesOf(h)) <= 1
          /\ Cardinality(LightsOf(h)) <= 1
          /\ handlers[h].cmd # "moveToLevelWithOnOff" => Cardinality(RequestsOf(h)) <= 1
          /\ handlers[h].cmd \in {"on", "off"} => LightsOf(h) = {}
          /\ handlers[h].cmd \in {"moveToLevel", "moveToHueAndSaturation"} => TogglesOf(h) = {}
          /\ handlers[h].cmd = "moveToColor" => RequestsOf(h) = {}
    /\ \A i \in DOMAIN issued :
          Failed(i) => \A j \in RequestsOf(issued[i].h) : j <= i

\* C8 witness: an intent whose only request failed has ended, and a
\* moveToLevelWithOnOff intent has issued its toggle and its light request
C8_Witness ==
    /\ \E i \in DOMAIN issued :
          /\ Failed(i)
          /\ handlers[issued[i].h].pc = "done"
          /\ RequestsOf(issued[i].h) = {i}
    /\ \E h \in DOMAIN handlers :
          /\ handlers[h].cmd = "moveToLevelWithOnOff"
          /\ TogglesOf(h) # {}
          /\ LightsOf(h) # {}

----------------------------------------------------------------------------
\* the configurations that must be refused, stated on the configuration itself
InvalidConfig ==
    \/ ~config.isArray
    \/ config.devices = <<>>
    \/ \E i \in DOMAIN config.devices :
          "" \in {config.devices[i].id, config.devices[i].name,
                  config.devices[i].ip, config.devices[i].key}
    \/ \E i \in DOMAIN config.devices, j \in DOMAIN config.devices :
          i < j /\ config.devices[i].id = config.devices[j].id

\* C9: configuration validation is all-or-nothing.  With a devices list that
\* is no list, is empty, has an entry lacking id, name, ip or key, or repeats
\* an id, startup ends in the configuration error and no device is ever
\* registered, the valid entries before the offending one included.
C9_ValidationAllOrNothing ==
    (Lights /\ InvalidConfig) =>
        /\ nRegistered = 0
        /\ lastRgb = <<>>
        /\ handlers = <<>>
        /\ phase \in {"start", "configError"}

\* C9 witness: startup failed on a list whose first entry is valid and whose
\* second entry repeats its id
C9_Witness ==
    /\ Lights
    /\ phase = "configError"
    /\ Len(config.devices) >= 2
    /\ validateDevices([isArray |-> TRUE, devices |-> <<config.devices[1]>>]) = "ok"
    /\ config.devices[2].id = config.devices[1].id
    /\ nRegistered = 0

----------------------------------------------------------------------------
\* C10: in moveToLevelWithOnOff with luminance > 0 the power-on request is
\* issued first and has ended (succeeded or failed) before the light payload
\* is handed to the network; the two requests of one intent are never in
\* flight together.
C10_PowerOnBeforeLight ==
    Lights =>
        \A h \in DOMAIN handlers :
            (handlers[h].cmd = "moveToLevelWithOnOff" /\ IsBrightness(h) /\ LumOf(h) > 0) =>
                /\ Cardinality({r \in inflight : r.h = h}) <= 1
                /\ TogglesOf(h) # {}
                /\ \A j \in LightsOf(h) :
                      \E i \in TogglesOf(h) :
                          /\ i < j
                          /\ issued[i].onoff = 1
                          /\ settled[i].kind # "pending"
                          /\ ~InFlight(i)

\* C10 witness: the power-on has ended and the light payload of the same
\* intent is in flight
C10_Witness ==
    /\ Lights
    /\ \E h \in DOMAIN handlers :
          /\ handlers[h].cmd = "moveToLevelWithOnOff"
          /\ LumOf(h) > 0
          /\ \E i \in TogglesOf(h), j \in LightsOf(h) :
                i < j /\ settled[i].kind = "response" /\ InFlight(j)

----------------------------------------------------------------------------
\* the commands whose handlers assign lastRgb or lastLum
CacheWriting == {"moveToLevel", "moveToLevelWithOnOff", "moveToHueAndSaturation"}

\* the step changes the cached colour or luminance of device d
CacheChanged(d) == lastRgb'[d] # lastRgb[d] \/ lastLum'[d] # lastLum[d]

\* the step is the invocation of a handler of one of the commands in S on d
Invokes(d, S) ==
    /\ Len(handlers') = Len(handlers) + 1
    /\ handlers'[Len(handlers')].dev = d
    /\ handlers'[Len(handlers')].cmd \in S

\* a device that only ever got power and XY-colour intents has the defaults
C11_DefaultsWithoutLightIntent ==
    Lights =>
        \A d \in 1..nRegistered :
            (\A h \in DOMAIN handlers : handlers[h].dev = d => ~(handlers[h].cmd \in CacheWriting))
                => lastRgb[d] = DefaultRgb /\ lastLum[d] = DefaultLum

\* C11: the cache of a device changes only in the invocation of a moveToLevel,
\* moveToLevelWithOnOff or moveToHueAndSaturation handler of that device; no
\* step of an on / off or moveToColor intent, its invocation or the success or
\* failure of its request, changes the cached colour or luminance.
C11_CacheChangesOnlyOnLightIntents ==
    /\ []C11_DefaultsWithoutLightIntent
    /\ [][Lights => \A d \in 1..nRegistered : CacheChanged(d) => Invokes(d, CacheWriting)]_vars

\* C11 witness: a brightness intent set the luminance of a device, a later
\* power-off intent on the device failed, and the cache still holds that value
C11_Witness ==
    /\ Lights
    /\ \E b \in DOMAIN handlers, p \in DOMAIN handlers :
          /\ b < p
          /\ handlers[b].dev = handlers[p].dev
          /\ IsBrightness(b)
          /\ LumOf(b) # DefaultLum
          /\ handlers[p].cmd = "off"
          /\ handlers[p].outcome = "rejected"
          /\ lastLum[handlers[b].dev] = LumOf(b)
          /\ lastRgb[handlers[b].dev] = DefaultRgb

----------------------------------------------------------------------------
\* every request goes to the address of the device its intent was for
C12_OwnAddress ==
    Lights =>
        \A i \in DOMAIN issued :
            /\ issued[i].dev = handlers[issued[i].h].dev
            /\ issued[i].ip = config.devices[handlers[issued[i].h].dev].ip

\* an intent fails only when one of its own requests failed
C12_OwnFailure ==
    Lights =>
        \A h \in DOMAIN handlers :
            handlers[h].outcome = "rejected" => \E i \in RequestsOf(h) : Failed(i)

\* a step that changes the cache of a device is the invocation of an intent
\* on that device
C12_OwnCache ==
    Lights =>
        \A d \in 1..nRegistered :
            CacheChanged(d) =>
                /\ Len(handlers') = Len(handlers) + 1
                /\ handlers'[Len(handlers')].dev = d

\* C12: devices are isolated.  An intent on one device, and the failure or
\* timeout of its requests, never changes the cache of another device, never
\* issues a request to the address of another device, and never makes an
\* intent on another device fail.
C12_DevicesIsolated ==
    /\ [](C12_OwnAddress /\ C12_OwnFailure)
    /\ [][C12_OwnCache]_vars

\* C12 witness: the request of an intent on one device ran into the timeout,
\* while a brightness intent on another device, issued after it, succeeded
\* and changed only the cache of its own device
C12_Witness ==
    /\ Lights
    /\ \E a \in DOMAIN handlers, b \in DOMAIN handlers :
          /\ handlers[a].dev # handlers[b].dev
          /\ handlers[a].outcome = "rejected"
          /\ \E i \in RequestsOf(a) : settled[i].kind = "timeout"
          /\ handlers[b].cmd = "moveToLevel"
          /\ handlers[b].outcome = "resolved"
          /\ \E i \in RequestsOf(a), j \in RequestsOf(b) :
                i < j /\ issued[i].ip # issued[j].ip
          /\ lastLum[handlers[b].dev] = LumOf(b)
          /\ LumOf(b) # DefaultLum
          /\ lastLum[handlers[a].dev] = DefaultLum

----------------------------------------------------------------------------
\* the luminance set by the latest brightness intent on the device of h
\* before h
LumBefore(h) ==
    LET P == {k \in 1..(h - 1) : handlers[k].dev = handlers[h].dev /\ IsBrightness(k)}
    IN IF P = {} THEN DefaultLum ELSE LumOf(SetMax(P))

\* every registered device has a cached colour and a cached luminance
C13_CacheDefined ==
    Lights =>
        /\ Len(lastRgb) = nRegistered
        /\ Len(lastLum) = nRegistered
        /\ \A d \in 1..nRegistered :
              lastRgb[d] \in 0..16777215 /\ lastLum[d] \in 0..100

\* C13: the light payload a moveToHueAndSaturation (setHueSaturation) intent
\* issues carries the colour converted from its hue and saturation together
\* with the luminance set by the latest earlier brightness intent on the same
\* device, and the default 100 only when there was none; the cache of a
\* registered device always holds a defined colour and luminance.
C13_ColorCarriesLastLuminance ==
    /\ C13_CacheDefined
    /\ Lights =>
          \A i \in DOMAIN issued :
              handlers[issued[i].h].cmd = "moveToHueAndSaturation" =>
                  /\ issued[i].ns = "Light"
                  /\ issued[i].rgb = ColorOf(issued[i].h)
                  /\ issued[i].luminance = LumBefore(issued[i].h)

\* C13 witness: a moveToHueAndSaturation payload went out after a brightness
\* intent on the same device and carries its luminance, which is not the
\* default, with the new colour
C13_Witness ==
    /\ Lights
    /\ \E i \in DOMAIN issued :
           /\ handlers[issued[i].h].cmd = "moveToHueAndSaturation"
           /\ \E k \in 1..(issued[i].h - 1) : handlers[k].dev = issued[i].dev /\ IsBrightness(k)
           /\ issued[i].luminance = LumBefore(issued[i].h)
           /\ issued[i].luminance # DefaultLum
           /\ issued[i].rgb # DefaultRgb

----------------------------------------------------------------------------
\* C14: a moveToColor (XY colour) intent is ignored: it issues no request at
\* all and completes at once with a successful outcome for the caller.
C14_XYColorIgnored ==
    Lights =>
        \A h \in DOMAIN handlers :
            handlers[h].cmd = "moveToColor" =>
                /\ RequestsOf(h) = {}
                /\ \A r \in inflight : r.h # h
                /\ handlers[h].pc = "done"
                /\ handlers[h].outcome = "resolved"
                /\ handlers[h].err = NoErr

\* C14 witness: a moveToColor intent was handled while the request of an
\* earlier intent on the same device was still pending, and that is the only
\* request there is
C14_Witness ==
    /\ Lights
    /\ \E h \in DOMAIN handlers :
          /\ handlers[h].cmd = "moveToColor"
          /\ handlers[h].outcome = "resolved"
          /\ h > 1
          /\ handlers[h - 1].dev = handlers[h].dev
          /\ InProgress(h - 1)
          /\ DOMAIN issued = RequestsOf(h - 1)
          /\ issued # <<>>

----------------------------------------------------------------------------
\* levelRaw limited to 0..254, written out by cases
Limited(raw) == IF raw < 0 THEN 0 ELSE IF raw > 254 THEN 254 ELSE raw

\* L is Limited(raw) / 254 * 100 rounded to the nearest integer:
\*   L <= 100 * c / 254 + 1/2 < L + 1
IsRounded(L, raw) ==
    /\ 254 * L <= 100 * Limited(raw) + 127
    /\ 100 * Limited(raw) + 127 < 254 * L + 254

\* the brightness intent of the run, if there is one
BrightnessIntents == {h \in DOMAIN handlers : IsBrightness(h)}

\* C15: brightness conversion.  For every integer levelRaw the luminance a
\* brightness intent caches and sends is round(clamp(levelRaw, 0, 254) / 254
\* * 100), so it lies in 0..100; levelRaw 254 gives 100, 0 gives 0 and 127
\* gives 50.
C15_BrightnessConversion ==
    \A h \in BrightnessIntents :
        LET raw == handlers[h].level.val
            d == handlers[h].dev
        IN /\ lastLum[d] \in 0..100
           /\ IsRounded(lastLum[d], raw)
           /\ raw = 254 => lastLum[d] = 100
           /\ raw = 0 => lastLum[d] = 0
           /\ raw = 127 => lastLum[d] = 50
           /\ \A i \in LightsOf(h) : issued[i].luminance = lastLum[d]

\* C15 witness: a brightness intent with levelRaw 127 has cached 50 and its
\* light payload with luminance 50 was answered
C15_Witness ==
    \E h \in BrightnessIntents :
        /\ handlers[h].level.val = 127
        /\ lastLum[handlers[h].dev] = 50
        /\ handlers[h].outcome = "resolved"
        /\ \E i \in LightsOf(h) : issued[i].luminance = 50 /\ settled[i].kind = "response"

----------------------------------------------------------------------------
\* the bodies that are JSON texts, and those that are not
JsonBodies == {"{}", "[1]"}
OtherBodies == {"", "oops", "{"}

\* C16: a send whose response has a success status (200..299) succeeds
\* whatever the body: a JSON body is returned as structured data, and an
\* empty, malformed or non-JSON body is returned as the raw text, without any
\* error for the caller.
C16_SuccessWhateverBody ==
    \A i \in DOMAIN settled :
        LET H == handlers[issued[i].h]
        IN (settled[i].kind = "response" /\ settled[i].status \in 200..299) =>
              /\ H.pc = "done"
              /\ H.outcome = "resolved"
              /\ H.err = NoErr
              /\ settled[i].body \in JsonBodies \cup OtherBodies
              /\ settled[i].body \in JsonBodies => H.ret = [kind |-> "json", text |-> settled[i].body]
              /\ settled[i].body \in OtherBodies => H.ret = [kind |-> "text", text |-> settled[i].body]

\* C16 witness: one send answered 204 with an empty body returned the empty
\* text, another answered 200 with malformed JSON returned that text, and
\* both callers succeeded
C16_Witness ==
    \E i \in DOMAIN settled, j \in DOMAIN settled :
        /\ settled[i] = Response(204, "")
        /\ handlers[issued[i].h].outcome = "resolved"
        /\ handlers[issued[i].h].ret = RawText("")
        /\ settled[j] = Response(200, "{")
        /\ handlers[issued[j].h].outcome = "resolved"
        /\ handlers[issued[j].h].ret = RawText("{")

----------------------------------------------------------------------------
\* the secret of the device the envelopes of a run are built for
Secret == IF Lights THEN config.devices[1].key ELSE config.key

\* C17: every envelope carries a signature equal to the hash of its own
\* message id, then the secret, then its own timestamp in decimal; envelopes
\* built for the same message id, secret and timestamp carry the same
\* signature.
C17_SignatureOverOwnFields ==
    /\ \A i \in DOMAIN built :
          LET hd == built[i].header
          IN hd.sign = [md5 |-> hd.messageId \o Secret \o ToString(hd.timestamp)]
    /\ \A i \in DOMAIN built, j \in DOMAIN built :
          (/\ built[i].header.messageId = built[j].header.messageId
           /\ built[i].header.timestamp = built[j].header.timestamp)
              => built[i].header.sign = built[j].header.sign

\* C17 witness: two envelopes were built from the same message id and
\* timestamp, with a secret that differs from the message id, and the
\* signature is the hash of "0a" ++ "k1" ++ "1700000000"
C17_Witness ==
    /\ Len(built) = 2
    /\ built[1].header.messageId = "0a"
    /\ built[2].header.messageId = "0a"
    /\ built[1].header.timestamp = 1700000000
    /\ built[2].header.timestamp = 1700000000
    /\ built[1].payload # built[2].payload
    /\ Secret = "k1"
    /\ built[2].header.sign = [md5 |-> "0ak11700000000"]

----------------------------------------------------------------------------
\* C18: under any interleaving with other intents on the same device, the
\* light payload a brightness intent (moveToLevel or moveToLevelWithOnOff)
\* issues carries the luminance converted from that intent's own level, not a
\* luminance another intent wrote while it was suspended on its power-on
\* request.
C18_OwnLuminance ==
    Lights =>
        \A i \in DOMAIN issued :
            (IsBrightness(issued[i].h) /\ issued[i].ns = "Light")
                => issued[i].luminance = LumOf(issued[i].h)

----------------------------------------------------------------------------
\* C19: a moveToLevelWithOnOff intent whose luminance converts to 0 (level 0
\* or 1, or any negative level) issues no toggle request at all, neither
\* power-on nor power-off, and exactly one light payload, with luminance 0
\* and the cached colour.
C19_ZeroLuminanceSkipsToggle ==
    \A h \in DOMAIN handlers :
        (/\ handlers[h].cmd = "moveToLevelWithOnOff"
         /\ handlers[h].level.finite
         /\ handlers[h].level.val <= 1)
            => /\ TogglesOf(h) = {}
               /\ Cardinality(LightsOf(h)) = 1
               /\ RequestsOf(h) = LightsOf(h)
               /\ \A i \in LightsOf(h) :
                     /\ issued[i].luminance = 0
                     /\ issued[i].capacity = 5
                     /\ issued[i].rgb = ColorBefore(h)

\* C19 witness: moveToLevelWithOnOff with level 1, after a colour intent on
\* the device, has completed with a single request, the light payload with
\* luminance 0 and that colour
C19_Witness ==
    \E h \in DOMAIN handlers :
        /\ handlers[h].cmd = "moveToLevelWithOnOff"
        /\ handlers[h].level = Num(1)
        /\ handlers[h].outcome = "resolved"
        /\ \E i \in DOMAIN issued :
              /\ RequestsOf(h) = {i}
              /\ issued[i].ns = "Light"
              /\ issued[i].luminance = 0
              /\ issued[i].rgb # DefaultRgb
              /\ issued[i].rgb = lastRgb[handlers[h].dev]

----------------------------------------------------------------------------
\* a brightness or hue / saturation intent one of whose parameters is missing
\* or no finite number
Unusable(H) ==
    \/ H.cmd \in {"moveToLevel", "moveToLevelWithOnOff"} /\ ~H.level.finite
    \/ H.cmd = "moveToHueAndSaturation" /\ (~H.hue.finite \/ ~H.sat.finite)

\* such an intent has issued nothing and completed without failure
C20_NoRequestNoFailure ==
    Lights =>
        \A h \in DOMAIN handlers :
            Unusable(handlers[h]) =>
                /\ RequestsOf(h) = {}
                /\ \A r \in inflight : r.h # h
                /\ handlers[h].pc = "done"
                /\ handlers[h].outcome = "resolved"

\* the step that handles such an intent changes neither the cache nor the
\* requests
C20_NoEffect ==
    (/\ Lights
     /\ Len(handlers') = Len(handlers) + 1
     /\ Unusable(handlers'[Len(handlers')]))
        => UNCHANGED <<lastRgb, lastLum, inflight, issued, settled>>

\* C20: a brightness or hue / saturation intent whose level, hue or
\* saturation is missing or not a finite number is dropped without effect: it
\* issues no request, leaves the cached colour and luminance unchanged, and
\* completes without failure.
C20_NonFiniteDropped ==
    /\ []C20_NoRequestNoFailure
    /\ [][C20_NoEffect]_vars

\* C20 witness: after a colour intent set the cached colour, a brightness
\* intent without a finite level was dropped: the cache still holds that
\* colour and the default luminance, and the only request is the earlier one
C20_Witness ==
    /\ Lights
    /\ Len(handlers) = 2
    /\ handlers[1].dev = handlers[2].dev
    /\ IsColor(1)
    /\ handlers[2].cmd = "moveToLevelWithOnOff"
    /\ Unusable(handlers[2])
    /\ handlers[2].outcome = "resolved"
    /\ DOMAIN issued = RequestsOf(1)
    /\ lastRgb[handlers[1].dev] = ColorOf(1)
    /\ ColorOf(1) # DefaultRgb
    /\ lastLum[handlers[1].dev] = DefaultLum

====
